---- MODULE Spec2Model ----
(***************************************************************************)
(* Model of intrusive::list_element<Tag> and intrusive::list<T, Tag>       *)
(* (src/intrusive_list.h).                                                 *)
(*                                                                         *)
(* The heap is the pair of maps nx / pv holding the next and prev fields   *)
(* of every list_element: the user's elements and the two sentinels        *)
(* (head, tail) every list allocates.  Every member function is a          *)
(* function from heap to heap that performs the reads and writes of the    *)
(* source in the source's order; an action applies one member function.    *)
(***************************************************************************)
EXTENDS Integers, Sequences, FiniteSets, TLC

\* Number of user elements (objects deriving from list_element).
NumElems == 3

\* The list objects of the program (slots: a destroyed one may be built again).
Lists == {1, 2}

Elems == {<<"e", i>> : i \in 1..NumElems}
head(l) == <<"h", l>>
tail(l) == <<"t", l>>
Sentinels == {head(l) : l \in Lists} \cup {tail(l) : l \in Lists}
Nodes == Elems \cup Sentinels
\* nullptr
Null == <<"null", 0>>
\* The address of a released sentinel whose memory is never handed out again.
Gone == <<"gone", 0>>

VARIABLES
    nx,      \* nx[p]: list_element::next of node p
    pv,      \* pv[p]: list_element::prev of node p
    live,    \* live[l]: list l is constructed and not yet destroyed
    fault,   \* "none", or the undefined behaviour the last call ran into
    op,      \* the member function that has just returned, with its arguments
    ret,     \* the cursor it returned (Null for a void function)
    dq       \* reference double-ended queues (used by SpecDeque only)

vars == <<nx, pv, live, fault, op, ret, dq>>

(***************************************************************************)
(* Memory                                                                  *)
(***************************************************************************)
\* p is a sentinel that has been deleted (or whose address is Gone).
Released(m, p) ==
    \/ p = Gone
    \/ \E l \in Lists : ~m.live[l] /\ p \in {head(l), tail(l)}

\* The heap a call starts from.
Mem == [nx |-> nx, pv |-> pv, live |-> live, fault |-> "none"]

\* Reading a field through p: a null pointer, or released memory, is undefined.
Deref(m, p) ==
    IF m.fault # "none" THEN m
    ELSE IF p = Null THEN [m EXCEPT !.fault = "null"]
    ELSE IF Released(m, p) THEN [m EXCEPT !.fault = "freed"]
    ELSE m

NextOf(m, p) == IF p \in Nodes THEN m.nx[p] ELSE Null
PrevOf(m, p) == IF p \in Nodes THEN m.pv[p] ELSE Null

\* p->next = v.  A store through nullptr faults; a store into released memory
\* lands in no object of the program.
SetNext(m, p, v) ==
    IF m.fault # "none" THEN m
    ELSE IF p = Null THEN [m EXCEPT !.fault = "null"]
    ELSE IF Released(m, p) THEN m
    ELSE [m EXCEPT !.nx[p] = v]

\* p->prev = v
SetPrev(m, p, v) ==
    IF m.fault # "none" THEN m
    ELSE IF p = Null THEN [m EXCEPT !.fault = "null"]
    ELSE IF Released(m, p) THEN m
    ELSE [m EXCEPT !.pv[p] = v]

(***************************************************************************)
(* iterator_impl::operator++ / operator--, repeated                        *)
(***************************************************************************)
RECURSIVE Walk(_, _, _, _)
\* The elements met from p along field f before stop, a non-element or fuel's end.
Walk(f, p, stop, fuel) ==
    IF fuel = 0 \/ p = stop \/ p \notin Elems THEN <<>>
    ELSE <<p>> \o Walk(f, f[p], stop, fuel - 1)

RECURSIVE WalkEnd(_, _, _, _)
\* The node at which that walk stops.
WalkEnd(f, p, stop, fuel) ==
    IF fuel = 0 \/ p = stop \/ p \notin Elems THEN p
    ELSE WalkEnd(f, f[p], stop, fuel - 1)

(***************************************************************************)
(* list_element                                                            *)
(***************************************************************************)
\* unlink that ends with prev = nullptr only
unlink_keeps_next(m, e) ==
    LET m0 == Deref(m, e)
        n  == NextOf(m0, e)
        m1 == IF n # Null THEN SetPrev(m0, n, PrevOf(m0, e)) ELSE m0
        p  == PrevOf(m1, e)
        m2 == IF p # Null THEN SetNext(m1, p, NextOf(m1, e)) ELSE m1
    IN  SetPrev(m2, e, Null)

\* list_element::unlink(), this = e
unlink(m, e) ==
    LET m0 == Deref(m, e)
        n  == NextOf(m0, e)
        m1 == IF n # Null THEN SetPrev(m0, n, PrevOf(m0, e)) ELSE m0
        p  == PrevOf(m1, e)
        m2 == IF p # Null THEN SetNext(m1, p, NextOf(m1, e)) ELSE m1
    IN  SetNext(SetPrev(m2, e, Null), e, Null)

(***************************************************************************)
(* list: member functions as heap transformers                             *)
(***************************************************************************)
\* list::empty()
empty(m, l) == NextOf(m, head(l)) = tail(l)

\* clear without head->next = tail
clear_tail_only(m, l) == SetPrev(m, tail(l), head(l))

\* clear that first unlinks the first element of a non-empty list
clear_detaching_first(m, l) ==
    LET m1 == IF NextOf(m, head(l)) # tail(l) THEN unlink(m, NextOf(m, head(l))) ELSE m
    IN  SetPrev(SetNext(m1, head(l), tail(l)), tail(l), head(l))

\* list::clear()
clear(m, l) ==
    SetPrev(SetNext(m, head(l), tail(l)), tail(l), head(l))

\* list::push_back(u)
push_back(m, l, e) ==
    LET t  == tail(l)
        m1 == SetNext(m, PrevOf(m, t), e)
        m2 == SetPrev(m1, e, PrevOf(m1, t))
        m3 == SetNext(m2, e, t)
    IN  SetPrev(m3, t, e)

\* pop_back that unlinks head->next
pop_back_takes_first(m, l) == unlink(m, NextOf(m, head(l)))

\* list::pop_back()
pop_back(m, l) == unlink(m, PrevOf(m, tail(l)))

\* push_front that leaves the old first node's prev naming the head sentinel
push_front_stale_prev(m, l, e) ==
    LET h  == head(l)
        m2 == SetNext(m, e, NextOf(m, h))
        m3 == SetPrev(m2, e, h)
    IN  SetNext(m3, h, e)

\* list::push_front(u)
push_front(m, l, e) ==
    LET h  == head(l)
        m1 == SetPrev(m, NextOf(m, h), e)
        m2 == SetNext(m1, e, NextOf(m1, h))
        m3 == SetPrev(m2, e, h)
    IN  SetNext(m3, h, e)

\* list::pop_front()
pop_front(m, l) == unlink(m, NextOf(m, head(l)))

\* insert without pos.me->prev = &v
insert_no_back_link(m, pos, e) ==
    LET m0 == Deref(m, pos)
        m1 == SetNext(m0, PrevOf(m0, pos), e)
        m2 == SetPrev(m1, e, PrevOf(m1, pos))
    IN  SetNext(m2, e, pos)

\* list::insert(pos, u)
insert(m, pos, e) ==
    LET m0 == Deref(m, pos)
        m1 == SetNext(m0, PrevOf(m0, pos), e)
        m2 == SetPrev(m1, e, PrevOf(m1, pos))
        m3 == SetNext(m2, e, pos)
    IN  SetPrev(m3, pos, e)

\* erase that closes the gap but leaves the erased element's own next and prev
erase_keeps_own_links(m, pos) ==
    LET m0 == Deref(m, pos)
        n  == NextOf(m0, pos)
        m1 == IF n # Null THEN SetPrev(m0, n, PrevOf(m0, pos)) ELSE m0
        p  == PrevOf(m1, pos)
    IN  IF p # Null THEN SetNext(m1, p, NextOf(m1, pos)) ELSE m1

\* list::erase(pos): the heap part (the returned cursor is pos.me->next, read first)
erase(m, pos) == unlink(m, pos)

\* splice without true_last->next->prev = first.me->prev
splice_no_back_link(m, pos, first, last) ==
    IF pos = first \/ first = last THEN m
    ELSE
    LET d0 == Deref(m, last)
        true_last == PrevOf(d0, last)
        d1 == Deref(Deref(d0, first), true_last)
        m1 == SetNext(d1, PrevOf(d1, first), NextOf(d1, true_last))
        d3 == Deref(m1, pos)
        m3 == SetNext(d3, PrevOf(d3, pos), first)
        m4 == SetPrev(m3, first, PrevOf(m3, pos))
        m5 == SetPrev(m4, pos, true_last)
    IN  SetNext(m5, true_last, pos)

\* splice that stores pos.me->prev = true_last before first.me->prev = pos.me->prev
splice_late_prev(m, pos, first, last) ==
    IF pos = first \/ first = last THEN m
    ELSE
    LET d0 == Deref(m, last)
        true_last == PrevOf(d0, last)
        d1 == Deref(Deref(d0, first), true_last)
        m1 == SetNext(d1, PrevOf(d1, first), NextOf(d1, true_last))
        d2 == Deref(m1, true_last)
        m2 == SetPrev(d2, NextOf(d2, true_last), PrevOf(d2, first))
        d3 == Deref(m2, pos)
        m3 == SetNext(d3, PrevOf(d3, pos), first)
        m4 == SetPrev(m3, pos, true_last)
        m5 == SetPrev(m4, first, PrevOf(m4, pos))
    IN  SetNext(m5, true_last, pos)

\* splice whose early return tests first == last only
splice_empty_range_only(m, pos, first, last) ==
    IF first = last THEN m
    ELSE
    LET d0 == Deref(m, last)
        true_last == PrevOf(d0, last)
        d1 == Deref(Deref(d0, first), true_last)
        m1 == SetNext(d1, PrevOf(d1, first), NextOf(d1, true_last))
        d2 == Deref(m1, true_last)
        m2 == SetPrev(d2, NextOf(d2, true_last), PrevOf(d2, first))
        d3 == Deref(m2, pos)
        m3 == SetNext(d3, PrevOf(d3, pos), first)
        m4 == SetPrev(m3, first, PrevOf(m3, pos))
        m5 == SetPrev(m4, pos, true_last)
    IN  SetNext(m5, true_last, pos)

\* splice without first.me->prev = pos.me->prev
splice_stale_first_prev(m, pos, first, last) ==
    IF pos = first \/ first = last THEN m
    ELSE
    LET d0 == Deref(m, last)
        true_last == PrevOf(d0, last)
        d1 == Deref(Deref(d0, first), true_last)
        m1 == SetNext(d1, PrevOf(d1, first), NextOf(d1, true_last))
        d2 == Deref(m1, true_last)
        m2 == SetPrev(d2, NextOf(d2, true_last), PrevOf(d2, first))
        d3 == Deref(m2, pos)
        m3 == SetNext(d3, PrevOf(d3, pos), first)
        m5 == SetPrev(m3, pos, true_last)
    IN  SetNext(m5, true_last, pos)

\* list::splice(pos, other, first, last)
splice(m, pos, first, last) ==
    IF pos = first \/ first = last THEN m
    ELSE
    LET d0 == Deref(m, last)
        true_last == PrevOf(d0, last)
        d1 == Deref(Deref(d0, first), true_last)
        m1 == SetNext(d1, PrevOf(d1, first), NextOf(d1, true_last))
        d2 == Deref(m1, true_last)
        m2 == SetPrev(d2, NextOf(d2, true_last), PrevOf(d2, first))
        d3 == Deref(m2, pos)
        m3 == SetNext(d3, PrevOf(d3, pos), first)
        m4 == SetPrev(m3, first, PrevOf(m3, pos))
        m5 == SetPrev(m4, pos, true_last)
    IN  SetNext(m5, true_last, pos)

\* operator=(list&&) without r.tail->prev->next = tail
move_links_no_tail_link(m, l, r) ==
    LET h  == head(l)
        t  == tail(l)
        rh == head(r)
        rt == tail(r)
        m1 == SetPrev(m, NextOf(m, rh), h)
        m2 == SetNext(m1, h, NextOf(m1, rh))
        m4 == SetPrev(m2, t, PrevOf(m2, rt))
        m5 == SetNext(m4, rh, rt)
    IN  SetPrev(m5, rt, rh)

\* list::operator=(list&& r), this = l: the six stores of the non-empty case
move_links(m, l, r) ==
    LET h  == head(l)
        t  == tail(l)
        rh == head(r)
        rt == tail(r)
        m1 == SetPrev(m, NextOf(m, rh), h)
        m2 == SetNext(m1, h, NextOf(m1, rh))
        m3 == SetNext(m2, PrevOf(m2, rt), t)
        m4 == SetPrev(m3, t, PrevOf(m3, rt))
        m5 == SetNext(m4, rh, rt)
    IN  SetPrev(m5, rt, rh)

RECURSIVE UnlinkAll(_, _)
UnlinkAll(m, s) == IF s = <<>> THEN m ELSE UnlinkAll(unlink(m, s[1]), SubSeq(s, 2, Len(s)))

\* operator=(list&&) that first unlinks, one by one, the elements this list held
move_assign_detaching(m, l, r) ==
    IF empty(m, r) THEN clear(m, l)
    ELSE IF l = r THEN move_links(m, l, r)
    ELSE move_links(UnlinkAll(m, Walk(m.nx, m.nx[head(l)], tail(l), NumElems + 1)), l, r)

\* operator=(list&&) that returns early on self-assignment
move_assign_self_guard(m, l, r) ==
    IF l = r THEN m
    ELSE IF empty(m, r) THEN clear(m, l)
    ELSE move_links(m, l, r)

\* list::operator=(list&& r), this = l
move_assign(m, l, r) ==
    IF empty(m, r) THEN clear(m, l) ELSE move_links(m, l, r)

\* list::~list(): the two stores that precede delete head; delete tail
destroy(m, l) ==
    LET h  == head(l)
        t  == tail(l)
        m1 == IF NextOf(m, h) # t THEN SetPrev(m, NextOf(m, h), Null) ELSE m
    IN  IF PrevOf(m1, t) # h THEN SetNext(m1, PrevOf(m1, t), Null) ELSE m1

\* The fields of a node returned by new list_element<Tag> (default member
\* initialisers) and of memory given back by delete.
Blank(m, l) ==
    [m EXCEPT !.nx[head(l)] = Null, !.pv[head(l)] = Null,
              !.nx[tail(l)] = Null, !.pv[tail(l)] = Null]

\* Every reference to the sentinels of l now names memory that is never reused.
Forget(m, l) ==
    LET old == {head(l), tail(l)}
        f(g) == [p \in Nodes |-> IF g[p] \in old THEN Gone ELSE g[p]]
    IN  [m EXCEPT !.nx = f(m.nx), !.pv = f(m.pv)]

(***************************************************************************)
(* Traversal                                                               *)
(***************************************************************************)
\* for (it = begin(); it != end(); ++it): the elements visited
FwdOf(f, l) == Walk(f, f[head(l)], tail(l), NumElems + 1)
FwdEndOf(f, l) == WalkEnd(f, f[head(l)], tail(l), NumElems + 1)
\* the same by operator-- from end() down to the head sentinel
BwdOf(g, l) == Walk(g, g[tail(l)], head(l), NumElems + 1)
BwdEndOf(g, l) == WalkEnd(g, g[tail(l)], head(l), NumElems + 1)

Fwd(l) == FwdOf(nx, l)
Bwd(l) == BwdOf(pv, l)

Reverse(s) == [i \in 1..Len(s) |-> s[Len(s) + 1 - i]]
Range(s) == {s[i] : i \in 1..Len(s)}

\* The valid cursors of list l: what iteration from begin() yields, and end().
Cursors(l) == Range(Fwd(l)) \cup {tail(l)}

\* The positions of the half-open range [first, last) of list x, when it is one
\* (s is the list's cursors in order: its elements, then end()).
Pos(s, p) == CHOOSE i \in 1..Len(s) : s[i] = p
IsRangeOf(s, first, last) ==
    /\ first \in Range(s) /\ last \in Range(s)
    /\ Pos(s, first) <= Pos(s, last)
InRangeOf(s, first, last) == {s[i] : i \in Pos(s, first)..(Pos(s, last) - 1)}
IsRange(x, first, last) == IsRangeOf(Fwd(x) \o <<tail(x)>>, first, last)
InRange(x, first, last) == InRangeOf(Fwd(x) \o <<tail(x)>>, first, last)

Unlinked(e) == nx[e] = Null /\ pv[e] = Null

RECURSIVE ChainFrom(_, _, _, _, _, _)
\* From node p, reached from node q by next: every prev names the node before
\* it, and next leads to the tail sentinel of l through elements only.
ChainFrom(f, g, l, q, p, fuel) ==
    IF p = tail(l) THEN g[p] = q
    ELSE IF fuel = 0 \/ p \notin Elems THEN FALSE
    ELSE g[p] = q /\ ChainFrom(f, g, l, p, f[p], fuel - 1)

\* The chain of list l in heap (f, g) is intact: head .. elements .. tail, doubly
\* linked.
WellFormedIn(f, g, l) == ChainFrom(f, g, l, head(l), f[head(l)], NumElems + 1)
WellFormed(l) == WellFormedIn(nx, pv, l)

(***************************************************************************)
(* Actions                                                                 *)
(***************************************************************************)
\* The call o ran on the heap and left it as m, returning r.  A call that ran
\* into undefined behaviour leaves the fault and nothing else.
Commit(m, o, r) ==
    /\ fault' = m.fault
    /\ nx' = IF m.fault = "none" THEN m.nx ELSE nx
    /\ pv' = IF m.fault = "none" THEN m.pv ELSE pv
    /\ live' = IF m.fault = "none" THEN m.live ELSE live
    /\ op' = o
    /\ ret' = IF m.fault = "none" THEN r ELSE Null

\* No call is in progress: the caller is between two calls.
Idle == <<"idle">>

\* A call is made between calls by a program that has not faulted, on lists
\* whose chains are intact: the behaviours run up to the first call that breaks
\* a chain.
Running ==
    /\ op = Idle
    /\ fault = "none"
    /\ \A l \in Lists : live[l] => WellFormed(l)

\* The caller has taken the result of the call and goes on.
Return ==
    /\ op # Idle
    /\ op' = Idle
    /\ ret' = Null
    /\ UNCHANGED <<nx, pv, live, fault, dq>>

\* new list_element<Tag> twice: at the addresses of slot l (reuse) or at
\* addresses never seen before
Alloc(m, l, reuse) ==
    LET m1 == IF reuse THEN m ELSE Forget(m, l)
    IN  [Blank(m1, l) EXCEPT !.live[l] = TRUE]

\* delete head; delete tail
Free(m, l) ==
    IF m.fault # "none" THEN m ELSE [Blank(m, l) EXCEPT !.live[l] = FALSE]

\* list()
Construct(l, reuse) ==
    /\ ~live[l]
    /\ Commit(clear(Alloc(Mem, l, reuse), l), <<"list", l, reuse>>, Null)

\* list(list&& r)
MoveConstruct(l, r, reuse) ==
    /\ ~live[l] /\ live[r]
    /\ Commit(move_assign(Alloc(Mem, l, reuse), l, r), <<"list_move", l, r, reuse>>, Null)

\* ~list()
Destroy(l) ==
    /\ live[l]
    /\ Commit(Free(destroy(Mem, l), l), <<"~list", l>>, Null)

\* l = std::move(r)   (r may be l itself)
MoveAssign(l, r) ==
    /\ live[l] /\ live[r]
    /\ Commit(move_assign(Mem, l, r), <<"move_assign", l, r>>, Null)

Clear(l) ==
    /\ live[l]
    /\ Commit(clear(Mem, l), <<"clear", l>>, Null)

\* precondition (spec 4.4): the element is unlinked
PushBack(l, e) ==
    /\ live[l] /\ Unlinked(e)
    /\ Commit(push_back(Mem, l, e), <<"push_back", l, e>>, Null)

PushFront(l, e) ==
    /\ live[l] /\ Unlinked(e)
    /\ Commit(push_front(Mem, l, e), <<"push_front", l, e>>, Null)

\* assert(!empty())
PopBack(l) ==
    /\ live[l] /\ ~empty(Mem, l)
    /\ Commit(pop_back(Mem, l), <<"pop_back", l>>, Null)

PopFront(l) ==
    /\ live[l] /\ ~empty(Mem, l)
    /\ Commit(pop_front(Mem, l), <<"pop_front", l>>, Null)

\* assert(pos.me != head); pos a cursor of this list, the element unlinked
Insert(l, pos, e) ==
    /\ live[l] /\ Unlinked(e)
    /\ pos \in Cursors(l) /\ pos # head(l)
    /\ Commit(insert(Mem, pos, e), <<"insert", l, pos, e>>, e)

\* assert(pos.me != tail && pos.me != head); returns iterator(pos.me->next)
Erase(l, pos) ==
    /\ live[l]
    /\ pos \in Cursors(l) /\ pos # tail(l) /\ pos # head(l)
    /\ Commit(erase(Mem, pos), <<"erase", l, pos>>, nx[pos])

\* assert(pos.me != head); [first, last) a range of x, pos a cursor of l that is
\* outside the range or is first itself (the call the early return answers)
Splice(l, pos, x, first, last) ==
    /\ live[l] /\ live[x]
    /\ LET s == Fwd(x) \o <<tail(x)>>
       IN  /\ IsRangeOf(s, first, last)
           /\ pos = first \/ pos \notin InRangeOf(s, first, last)
    /\ pos \in Cursors(l) /\ pos # head(l)
    /\ Commit(splice(Mem, pos, first, last), <<"splice", l, pos, x, first, last>>, Null)

\* e.unlink() called by the element's owner
Unlink(e) ==
    /\ Running
    /\ Commit(unlink(Mem, e), <<"unlink", e>>, Null)

Next ==
    \/ Running /\ UNCHANGED dq /\ \E l \in Lists, reuse \in BOOLEAN : Construct(l, reuse)
    \/ Running /\ UNCHANGED dq /\ \E l \in Lists, r \in Lists, reuse \in BOOLEAN :
           MoveConstruct(l, r, reuse)
    \/ Running /\ UNCHANGED dq /\ \E l \in Lists : Destroy(l)
    \/ Running /\ UNCHANGED dq /\ \E l \in Lists, r \in Lists : MoveAssign(l, r)
    \/ Running /\ UNCHANGED dq /\ \E l \in Lists : Clear(l)
    \/ Running /\ UNCHANGED dq /\ \E l \in Lists, e \in Elems : PushBack(l, e)
    \/ Running /\ UNCHANGED dq /\ \E l \in Lists, e \in Elems : PushFront(l, e)
    \/ Running /\ UNCHANGED dq /\ \E l \in Lists : PopBack(l)
    \/ Running /\ UNCHANGED dq /\ \E l \in Lists : PopFront(l)
    \/ Running /\ UNCHANGED dq /\ \E l \in Lists, e \in Elems :
           \E pos \in Cursors(l) : Insert(l, pos, e)
    \/ Running /\ UNCHANGED dq /\ \E l \in Lists : \E pos \in Cursors(l) : Erase(l, pos)
    \/ Running /\ UNCHANGED dq /\ \E l \in Lists, x \in Lists :
           \E pos \in Cursors(l), first \in Cursors(x), last \in Cursors(x) :
               Splice(l, pos, x, first, last)
    \/ Running /\ UNCHANGED dq /\ \E e \in Elems : Unlink(e)
    \/ Return

Init ==
    /\ nx = [p \in Nodes |-> IF p \in {head(l) : l \in Lists} THEN tail(p[2]) ELSE Null]
    /\ pv = [p \in Nodes |-> IF p \in {tail(l) : l \in Lists} THEN head(p[2]) ELSE Null]
    /\ live = [l \in Lists |-> TRUE]
    /\ fault = "none"
    /\ op = Idle
    /\ ret = Null
    /\ dq = [l \in Lists |-> <<>>]

Spec == Init /\ [][Next]_vars

(***************************************************************************)
(* Pushes and pops only, against reference double-ended queues             *)
(***************************************************************************)
DequePushBack(l, e) == PushBack(l, e) /\ dq' = [dq EXCEPT ![l] = Append(@, e)]
DequePushFront(l, e) == PushFront(l, e) /\ dq' = [dq EXCEPT ![l] = <<e>> \o @]
DequePopBack(l) == PopBack(l) /\ dq' = [dq EXCEPT ![l] = SubSeq(@, 1, Len(@) - 1)]
DequePopFront(l) == PopFront(l) /\ dq' = [dq EXCEPT ![l] = SubSeq(@, 2, Len(@))]

NextDeque ==
    \/ Running /\ \E l \in Lists, e \in Elems : DequePushBack(l, e)
    \/ Running /\ \E l \in Lists, e \in Elems : DequePushFront(l, e)
    \/ Running /\ \E l \in Lists : DequePopBack(l)
    \/ Running /\ \E l \in Lists : DequePopFront(l)
    \/ Return

SpecDeque == Init /\ [][NextDeque]_vars

(***************************************************************************)
(* Calls made whatever the state of the chains                             *)
(***************************************************************************)
\* A call is made between calls by a program that has not faulted.  No member
\* function looks at the chain before it runs, so the caller that went on after
\* clear() or a move is this one.
Calling ==
    /\ op = Idle
    /\ fault = "none"

\* e.unlink() called by the element's owner
UnlinkUnchecked(e) ==
    /\ Calling
    /\ Commit(unlink(Mem, e), <<"unlink", e>>, Null)

NextUnchecked ==
    \/ Calling /\ UNCHANGED dq /\ \E l \in Lists, r \in Lists : MoveAssign(l, r)
    \/ Calling /\ UNCHANGED dq /\ \E l \in Lists : Clear(l)
    \/ Calling /\ UNCHANGED dq /\ \E l \in Lists, e \in Elems : PushBack(l, e)
    \/ Calling /\ UNCHANGED dq /\ \E l \in Lists : PopFront(l)
    \/ UNCHANGED dq /\ \E e \in Elems : UnlinkUnchecked(e)
    \/ Return

SpecUnchecked == Init /\ [][NextUnchecked]_vars

(***************************************************************************)
(* Claims                                                                  *)
(***************************************************************************)
\* C1: under pushes and pops only, the traversal of every list from begin() to
\* end() is the content of the reference deque driven by the same calls, and
\* the traversal by prev from the tail sentinel reaches the head sentinel
\* through exactly the reverse of that sequence.
C1_DequeRefinement ==
    \A l \in Lists :
        /\ FwdEndOf(nx, l) = tail(l)
        /\ Fwd(l) = dq[l]
        /\ BwdEndOf(pv, l) = head(l)
        /\ Bwd(l) = Reverse(dq[l])

\* C1 witness: a list that was pushed at both ends and then popped still holds
\* two elements.
C1_Witness ==
    /\ op[1] \in {"pop_back", "pop_front"}
    /\ Len(dq[op[2]]) = 2
    /\ Fwd(op[2]) = dq[op[2]]

\* C2 (as claimed): in every reachable state the chain of every live list is
\* intact: next from head reaches tail, prev from tail reaches head, and the
\* two traversals visit the same elements in opposite orders.
C2_ChainsIntact ==
    \A l \in Lists :
        live[l] =>
            /\ FwdEndOf(nx, l) = tail(l)
            /\ BwdEndOf(pv, l) = head(l)
            /\ Bwd(l) = Reverse(Fwd(l))

\* C3 (as claimed): every element has both references absent or both present.
C3_BothOrNeither ==
    \A e \in Elems : (nx[e] = Null) <=> (pv[e] = Null)

\* C4 (as claimed): ~list() leaves every element the list held unlinked.
C4_DestroyUnlinksAll ==
    [][\A l \in Lists :
          op' = <<"~list", l>> =>
              \A e \in Range(Fwd(l)) : nx'[e] = Null /\ pv'[e] = Null]_vars

\* C5 (as claimed): no element references a released sentinel.
C5_NoDanglingSentinel ==
    \A e \in Elems : ~Released(Mem, nx[e]) /\ ~Released(Mem, pv[e])

(***************************************************************************)
(* What the move and splice claims expect, on sequences                    *)
(***************************************************************************)
\* s without the members of R, order kept
SeqWithout(s, R) == SelectSeq(s, LAMBDA e : e \notin R)

\* the elements of [first, last) of list x, in list order
SubRange(x, first, last) ==
    LET s == Fwd(x) \o <<tail(x)>>
    IN  SubSeq(s, Pos(s, first), Pos(s, last) - 1)

\* s with r put immediately before pos (at the end when pos is not in s: end())
InsertBefore(s, pos, r) ==
    IF pos \in Range(s)
    THEN SubSeq(s, 1, Pos(s, pos) - 1) \o r \o SubSeq(s, Pos(s, pos), Len(s))
    ELSE s \o r

EmptyIn(f, g, l) == f[head(l)] = tail(l) /\ g[tail(l)] = head(l)

C8_MoveFrame ==
    [][(/\ op'[1] = "move_assign"
        /\ ~empty(Mem, op'[3]))
       => LET l == op'[2]
              r == op'[3]
              first == nx[head(r)]
              last == pv[tail(r)]
          IN  /\ \A e \in Elems :
                    /\ e # last => nx'[e] = nx[e]
                    /\ e # first => pv'[e] = pv[e]
              /\ \A k \in Lists \ {l, r} :
                    \A p \in {head(k), tail(k)} : nx'[p] = nx[p] /\ pv'[p] = pv[p]]_vars

\* C8 witness: a list of one element was move-assigned a list of two; the old
\* element still has both its references to the destination's sentinels.
C8_Witness ==
    /\ op[1] = "move_assign"
    /\ op[2] # op[3]
    /\ Len(Fwd(op[2])) = 2
    /\ \E e \in Elems : pv[e] = head(op[2]) /\ nx[e] = tail(op[2])

C11_SpliceNoOp ==
    [][(op'[1] = "splice" /\ (op'[3] = op'[5] \/ op'[5] = op'[6]))
       => nx' = nx /\ pv' = pv]_vars

\* C11 witness: splice was called on a list of at least two elements with pos
\* equal to first and a range of at least two elements.
C11_Witness ==
    /\ op[1] = "splice"
    /\ op[3] = op[5]
    /\ op[5] # op[6]
    /\ op[5] \in Elems
    /\ nx[op[5]] # op[6]
    /\ WellFormed(op[2])
    /\ Len(Fwd(op[2])) >= 2

ReachableFrom(l) == Range(Fwd(l)) \cup Range(Bwd(l))

\* C16 (as claimed): no element is reachable from two different live lists.
C16_NoSharedElement ==
    \A l \in Lists, k \in Lists :
        (l # k /\ live[l] /\ live[k]) => ReachableFrom(l) \cap ReachableFrom(k) = {}

\* The order list k is to have after the call o (an insert, erase or splice
\* step), computed on sequences from the order before the call.
OrderAfter(o, k) ==
    IF o[1] = "insert" /\ o[2] = k THEN InsertBefore(Fwd(k), o[3], <<o[4]>>)
    ELSE IF o[1] = "erase" /\ o[2] = k THEN SeqWithout(Fwd(k), {o[3]})
    ELSE IF o[1] = "splice" /\ o[3] # o[5] /\ o[5] # o[6] /\ k \in {o[2], o[4]}
    THEN LET moved == SubRange(o[4], o[5], o[6])
             rest == SeqWithout(Fwd(k), Range(moved))
         IN  IF k = o[2] THEN InsertBefore(rest, o[3], moved) ELSE rest
    ELSE Fwd(k)

C18_ClearFrame ==
    [][op'[1] = "clear"
       => LET l == op'[2]
          IN  /\ \A q \in Nodes :
                    /\ q # head(l) => nx'[q] = nx[q]
                    /\ q # tail(l) => pv'[q] = pv[q]
              /\ \A e \in Range(Fwd(l)) :
                    /\ nx'[e] = nx[e] /\ pv'[e] = pv[e]
                    /\ nx'[e] # Null /\ pv'[e] # Null]_vars

\* C18 witness: a list of two elements was cleared; it is empty and its two
\* former elements still name each other and its sentinels.
C18_Witness ==
    /\ op[1] = "clear"
    /\ EmptyIn(nx, pv, op[2])
    /\ \E a \in Elems, b \in Elems :
          /\ a # b
          /\ pv[a] = head(op[2]) /\ nx[a] = b
          /\ pv[b] = a /\ nx[b] = tail(op[2])

\* C19: e.unlink() on an element e of a live list leaves every next and prev as
\* erase(cursor to e) computes them, and the other way round; pop_front() and
\* pop_back() leave them as erase of the first and of the last element of the
\* traversal computes them.
C19_UnlinkIsErase ==
    [][/\ (op'[1] = "unlink" /\ \E l \in Lists : live[l] /\ op'[2] \in Range(Fwd(l)))
            => /\ nx' = erase(Mem, op'[2]).nx
               /\ pv' = erase(Mem, op'[2]).pv
       /\ op'[1] = "erase"
            => /\ nx' = unlink(Mem, op'[3]).nx
               /\ pv' = unlink(Mem, op'[3]).pv
       /\ op'[1] = "pop_front"
            => /\ nx' = erase(Mem, Fwd(op'[2])[1]).nx
               /\ pv' = erase(Mem, Fwd(op'[2])[1]).pv
       /\ op'[1] = "pop_back"
            => /\ nx' = erase(Mem, Fwd(op'[2])[Len(Fwd(op'[2]))]).nx
               /\ pv' = erase(Mem, Fwd(op'[2])[Len(Fwd(op'[2]))]).pv]_vars

\* C19 witness: pop_back took the last of three elements; two are left and the
\* third is unlinked.
C19_Witness ==
    /\ op[1] = "pop_back"
    /\ Len(Fwd(op[2])) = 2
    /\ WellFormed(op[2])
    /\ \E e \in Elems \ Range(Fwd(op[2])) : Unlinked(e)
====
